---- MODULE Spec2Model ----
(***************************************************************************)
(* Token relay and invocation dispatch of the Agent Identity demo:         *)
(*   sidecar/weather-api/app.py     the resource server and its validator  *)
(*   sidecar/llm-agent-aws/app.py   the agent: rate limiter, dispatcher,   *)
(*                                  tool chain and trace recorder          *)
(***************************************************************************)
EXTENDS Integers, Sequences, FiniteSets, TLC

(***************************************************************************)
(* Bounds of the model.                                                    *)
(***************************************************************************)
MaxHdrLen == 6

Range(s) == { s[i] : i \in 1..Len(s) }

RECURSIVE SeqsUpTo(_, _)
SeqsUpTo(S, n) ==
    IF n = 0 THEN { <<>> }
    ELSE LET shorter == SeqsUpTo(S, n - 1)
         IN  shorter \cup { Append(s, x) : s \in { t \in shorter : Len(t) = n - 1 }, x \in S }

(***************************************************************************)
(* weather-api: the Authorization header.                                  *)
(* A header value is a sequence of chunks:                                 *)
(*   "B"  the seven characters 'Bearer '                                   *)
(*   "."  a dot                                                            *)
(*   "J"  a run of base64url characters that decodes to a JSON object      *)
(* The empty sequence is the missing header (headers.get(..., '')).        *)
(***************************************************************************)
HdrChunks == { "B", ".", "J" }

Headers == SeqsUpTo(HdrChunks, MaxHdrLen)

\* str.startswith('Bearer ')
StartsWithBearer(h) == Len(h) >= 1 /\ h[1] = "B"

\* str.replace('Bearer ', ''): every occurrence is deleted, not only the prefix
RECURSIVE ReplaceBearer(_)
ReplaceBearer(h) ==
    IF h = <<>> THEN <<>>
    ELSE IF Head(h) = "B" THEN ReplaceBearer(Tail(h))
    ELSE <<Head(h)>> \o ReplaceBearer(Tail(h))

\* str.split('.')
RECURSIVE SplitDots(_)
SplitDots(t) ==
    IF t = <<>> THEN << <<>> >>
    ELSE LET rest == SplitDots(Tail(t))
         IN  IF Head(t) = "." THEN << <<>> >> \o rest
             ELSE << <<Head(t)>> \o rest[1] >> \o Tail(rest)

\* jwt.decode(token, options={"verify_signature": False}): three segments,
\* header and payload each the encoding of one JSON object, the signature
\* any base64url text; no claim is verified.  FALSE is DecodeError.
JwtDecodes(t) ==
    LET parts == SplitDots(t)
    IN  /\ Len(parts) = 3
        /\ parts[1] = <<"J">>
        /\ parts[2] = <<"J">>
        /\ "B" \notin Range(parts[3])

\* The claims a payload can carry: each key absent ("-") or set.
Absent == "-"
AppIds == { Absent, "app-1", "app-2" }
FrdValues == { Absent, "FederatedAgent", "User" }
AudValues == { Absent, "api://weather" }
RolesValues == { Absent, "Weather.Read" }
ExpValues == { Absent, "expired" }

ClaimSets == [ appid : AppIds, aud : AudValues, roles : RolesValues,
               exp : ExpValues, xms_frd : FrdValues ]

NoClaims == [ appid |-> Absent, aud |-> Absent, roles |-> Absent,
              exp |-> Absent, xms_frd |-> Absent ]

\* dict.get(key, default)
Get(claims, key, default) == IF claims[key] = Absent THEN default ELSE claims[key]

Routes == { "weather", "forecast" }

(***************************************************************************)
(* llm-agent-aws: user queries.                                            *)
(* A query is its whitespace-separated words and what follows the last     *)
(* word: nothing, "?", " ?" (a blank, then the mark) or "?." .             *)
(***************************************************************************)
BEDROCK_RATE_LIMIT_SECONDS == 20

Vocab == { "weather", "in", "for", "Tokyo", "New", "York", "hello", "now" }

\* Words of the queries given by name, outside the vocabulary.
MoreWords == { "What", "is", "the", "Dallas", "Show", "forecast", "Seattle" }

Tails == { "", "?", " ?", "?." }

\* str.lower() of a word
Lower(w) ==
    CASE w = "Tokyo" -> "tokyo"
      [] w = "New" -> "new"
      [] w = "York" -> "york"
      [] w = "What" -> "what"
      [] w = "Dallas" -> "dallas"
      [] w = "Show" -> "show"
      [] w = "Seattle" -> "seattle"
      [] OTHER -> w

\* str.capitalize() of a lower-case word
Capital(w) ==
    CASE w = "tokyo" -> "Tokyo"
      [] w = "new" -> "New"
      [] w = "york" -> "York"
      [] w = "weather" -> "Weather"
      [] w = "in" -> "In"
      [] w = "for" -> "For"
      [] w = "hello" -> "Hello"
      [] w = "now" -> "Now"
      [] w = "what" -> "What"
      [] w = "is" -> "Is"
      [] w = "the" -> "The"
      [] w = "dallas" -> "Dallas"
      [] w = "show" -> "Show"
      [] w = "forecast" -> "Forecast"
      [] w = "seattle" -> "Seattle"
      [] OTHER -> w

LowerAll(ws) == [ i \in 1..Len(ws) |-> Lower(ws[i]) ]

\* A city string: its words, and a "?" left clinging to the last one.
City(ws, mark) == [ words |-> ws, mark |-> mark ]
NoCity == City(<<>>, "")
Seattle == City(<<"Seattle">>, "")

\* user_query.strip().rstrip('?').rstrip('.'): the words and what is left
\* after the last one ("" nothing, " " a blank, "?" a mark the '.' shielded).
Clean(q) ==
    [ words |-> q.words,
      rest |-> CASE q.tail = "" -> ""
                 [] q.tail = "?" -> ""
                 [] q.tail = " ?" -> IF q.words = <<>> THEN "" ELSE " "
                 [] q.tail = "?." -> "?" ]

\* any(keyword in user_query.lower() for keyword in [...]): of the words of
\* the model, "weather" and "forecast" hold one of the four keywords.
HasKeyword(q) ==
    \E i \in 1..Len(q.words) : Lower(q.words[i]) \in { "weather", "forecast" }

\* not user_message
IsEmptyMessage(q) == q.words = <<>> /\ q.tail = ""

\* Places of the separator ' <sep> ' in the cleaned, lower-cased query, as
\* str.split finds them: left to right, not overlapping (two neighbouring
\* separators share a blank, so the second is not one).
RECURSIVE SepPlaces(_, _, _, _)
SepPlaces(c, sep, i, prevTaken) ==
    IF i > Len(c.words) THEN {}
    ELSE LET here == /\ Lower(c.words[i]) = sep
                     /\ i > 1
                     /\ ~prevTaken
                     /\ (i < Len(c.words) \/ c.rest = " ")
         IN  (IF here THEN { i } ELSE {}) \cup SepPlaces(c, sep, i + 1, here)

Max(S) == CHOOSE x \in S : \A y \in S : y <= x

\* clean_query.lower().split(' <sep> ')[-1].strip()
AfterLastSep(c, sep) ==
    LET last == Max(SepPlaces(c, sep, 1, FALSE))
    IN  City(LowerAll(SubSeq(c.words, last + 1, Len(c.words))),
             IF last < Len(c.words) THEN (IF c.rest = "?" THEN "?" ELSE "") ELSE "")

\* str.capitalize(): first character upper case, the rest lower case
Capitalize(city) ==
    IF city.words = <<>> THEN city
    ELSE City(<<Capital(Lower(city.words[1]))>> \o LowerAll(Tail(city.words)), city.mark)

\* The fallback extractor of process_with_langchain: NoCity is None or ''.
FallbackCity(q) ==
    LET c == Clean(q)
        found == IF SepPlaces(c, "in", 1, FALSE) # {} THEN AfterLastSep(c, "in")
                 ELSE IF SepPlaces(c, "for", 1, FALSE) # {} THEN AfterLastSep(c, "for")
                 ELSE IF Len(c.words) >= 2
                      THEN City(<<c.words[Len(c.words)]>>, IF c.rest = "?" THEN "?" ELSE "")
                 ELSE NoCity
    IN  IF found.words = <<>> THEN NoCity ELSE Capitalize(found)

\* re.search(r'\b<kw>\s+([A-Za-z][A-Za-z\s]*?)$', clean_query, re.IGNORECASE):
\* the leftmost word <kw> followed by at least one word, with only letters
\* and blanks up to the end of the query; group(1).strip().
PatternCity(c, kw) ==
    LET places == { i \in 1..(Len(c.words) - 1) : Lower(c.words[i]) = kw }
    IN  IF places = {} \/ c.rest = "?" THEN NoCity
        ELSE LET first == CHOOSE i \in places : \A j \in places : i <= j
             IN  City(SubSeq(c.words, first + 1, Len(c.words)), "")

common_words == { "weather", "what", "is", "the", "how", "today", "now", "like" }

\* Pattern 3 of process_without_llm: the last word of the cleaned query, with
\* the "?" clinging to it, unless it is a common word.
LastToken_AnyWord(c) ==
    IF c.words = <<>> THEN City(<<>>, IF c.rest = "?" THEN "?" ELSE "")
    ELSE City(<<c.words[Len(c.words)]>>, IF c.rest = "?" THEN "?" ELSE "")

LastToken(c) ==
    LET last_word == c.words[Len(c.words)]
        mark == IF c.rest = "?" THEN "?" ELSE ""
    IN  IF c.words = <<>> THEN City(<<>>, mark)
        ELSE IF mark = "?" \/ Lower(last_word) \notin common_words
             THEN City(<<last_word>>, mark)
        ELSE NoCity

ExtractCity_ForFirst(q) ==
    LET c == Clean(q)
        p1 == PatternCity(c, "in")
        p2 == PatternCity(c, "for")
        p3 == LastToken(c)
    IN  IF p2 # NoCity THEN p2
        ELSE IF p1 # NoCity THEN p1
        ELSE IF p3 # NoCity THEN p3
        ELSE Seattle

ExtractCity_NoDefault(q) ==
    LET c == Clean(q)
        p1 == PatternCity(c, "in")
        p2 == PatternCity(c, "for")
        p3 == LastToken(c)
    IN  IF p1 # NoCity THEN p1
        ELSE IF p2 # NoCity THEN p2
        ELSE p3

\* The extractor of process_without_llm.
ExtractCity(q) ==
    LET c == Clean(q)
        p1 == PatternCity(c, "in")
        p2 == PatternCity(c, "for")
        p3 == LastToken(c)
    IN  IF p1 # NoCity THEN p1
        ELSE IF p2 # NoCity THEN p2
        ELSE IF p3 # NoCity THEN p3
        ELSE Seattle

VARIABLES
    vpc,            \* weather-api: position of the request being served
    vreq,           \* weather-api: the request (header, payload claims, route)
    token_claims,   \* weather-api: request.token_claims
    vresp,          \* weather-api: the response (status, error)
    vran,           \* weather-api: number of runs of the wrapped view function
    clock,                   \* agent: time.time()
    last_bedrock_call_time,  \* agent: the rate limiter's timestamp
    debug_logs,              \* agent: the list the global debug_logs names
    LANGCHAIN_AVAILABLE,     \* agent: whether the decision-loop library loaded
    threaded,                \* agent: whether the server overlaps requests
    nreq,                    \* agent: number of chat requests received
    pc,                      \* agent: position of each worker thread
    req,                     \* agent: the request each worker serves
    loc,                     \* agent: the locals of each worker's call stack
    resp,                    \* agent: the HTTP response of each worker
    starts,                  \* agent: times at which agent.invoke was entered
    completes,               \* agent: times and outcomes of agent.invoke's ends
    xpc,            \* extractors: how far the runs on the query have got
    xq,             \* extractors: the query given
    xcity,          \* extractors: the city process_without_llm extracts
    xfallback,      \* extractors: the city the fallback extracts
    xagain,         \* extractors: the city extracted from the extracted city
    dpc,            \* claims decoder: how far the run on the token has got
    dtoken,         \* claims decoder: the token given
    dclaims,        \* claims decoder: what decode_jwt_payload returned
    ddisplay,       \* claims decoder: display_claims and the record logged
    dheader,        \* claims decoder: the headers of the request to the resource
    dlogged,        \* claims decoder: the data of the record of that request
    lconfig,        \* decision loop: the agent create_weather_agent built
    lpc,            \* decision loop: the node that runs next, or how invoke ended
    lsteps,         \* decision loop: steps taken inside agent.invoke
    ltools,         \* decision loop: runs of the tool get_weather
    lresult,        \* decision loop: what the tool returned last
    ppc,            \* weather-api, threaded: position of each request in flight
    preq,           \* weather-api, threaded: each request (header, payload claims)
    pctx,           \* weather-api, threaded: request.token_claims of each request
    presp,          \* weather-api, threaded: each response
    hservice,       \* health: the process the run follows
    hresp,          \* health: the last answer of GET /health
    rpc,            \* rate limiter: position of each thread in process_with_langchain
    rtime           \* rate limiter: the time each thread computed or read

vvars == << vpc, vreq, token_claims, vresp, vran >>

avars == << clock, last_bedrock_call_time, debug_logs, LANGCHAIN_AVAILABLE, threaded,
            nreq, pc, req, loc, resp, starts, completes >>

xvars == << xpc, xq, xcity, xfallback, xagain >>

dvars == << dpc, dtoken, dclaims, ddisplay, dheader, dlogged >>

lvars == << lconfig, lpc, lsteps, ltools, lresult >>

pvars == << ppc, preq, pctx, presp >>

hvars == << hservice, hresp >>

rvars == << rpc, rtime >>

vars == << vpc, vreq, token_claims, vresp, vran,
           clock, last_bedrock_call_time, debug_logs, LANGCHAIN_AVAILABLE, threaded,
           nreq, pc, req, loc, resp, starts, completes,
           xpc, xq, xcity, xfallback, xagain, dpc, dtoken, dclaims, ddisplay, dheader,
           dlogged, lconfig, lpc, lsteps, ltools, lresult,
           ppc, preq, pctx, presp, hservice, hresp, rpc, rtime >>

NoReq == [ hdr |-> <<>>, claims |-> NoClaims, route |-> "weather" ]
NoResp == [ status |-> 0, error |-> "" ]
NoTokenClaims == [ appid |-> "", aud |-> "", roles |-> "", xms_frd |-> "",
                   is_agent_identity |-> FALSE ]

\* A request arrives at a route wrapped by validate_token.
VReceive ==
    /\ vpc = "idle"
    /\ \E h \in Headers, r \in Routes :
         \E c \in (IF "J" \in Range(h) THEN ClaimSets ELSE { NoClaims }) :
            vreq' = [ hdr |-> h, claims |-> c, route |-> r ]
    /\ vpc' = "validate"
    /\ UNCHANGED << token_claims, vresp, vran >>

\* validate_token.decorated, the checks before the wrapped function is
\* called: the 401 it answers, or the claims it stores on the request.
Reject(msg) == [ ok |-> FALSE, error |-> msg, claims |-> NoTokenClaims ]

decorated_RequiresAgent(auth_header, payload) ==
    LET token == ReplaceBearer(auth_header)
        xms_frd == Get(payload, "xms_frd", "")
    IN  IF auth_header = <<>> THEN Reject("Missing Authorization header")
        ELSE IF ~StartsWithBearer(auth_header) THEN Reject("Invalid Authorization format")
        ELSE IF ~JwtDecodes(token) THEN Reject("Invalid token format")
        ELSE IF xms_frd # "FederatedAgent" THEN Reject("Token validation failed")
        ELSE [ ok |-> TRUE, error |-> "",
               claims |-> [ appid |-> Get(payload, "appid", "unknown"),
                            aud |-> Get(payload, "aud", "unknown"),
                            roles |-> Get(payload, "roles", "[]"),
                            xms_frd |-> xms_frd,
                            is_agent_identity |-> TRUE ] ]

decorated(auth_header, payload) ==
    LET token == ReplaceBearer(auth_header)
        xms_frd == Get(payload, "xms_frd", "")
    IN  IF auth_header = <<>> THEN Reject("Missing Authorization header")
        ELSE IF ~StartsWithBearer(auth_header) THEN Reject("Invalid Authorization format")
        ELSE IF ~JwtDecodes(token) THEN Reject("Invalid token format")
        ELSE [ ok |-> TRUE, error |-> "",
               claims |-> [ appid |-> Get(payload, "appid", "unknown"),
                            aud |-> Get(payload, "aud", "unknown"),
                            roles |-> Get(payload, "roles", "[]"),
                            xms_frd |-> xms_frd,
                            is_agent_identity |-> (xms_frd = "FederatedAgent") ] ]

\* The decorator at work on the request being served.
validate_token ==
    /\ vpc = "validate"
    /\ LET v == decorated(vreq.hdr, vreq.claims)
       IN  IF v.ok
           THEN /\ token_claims' = v.claims
                /\ vpc' = "view"
                /\ UNCHANGED vresp
           ELSE /\ vresp' = [ status |-> 401, error |-> v.error ]
                /\ vpc' = "done"
                /\ UNCHANGED token_claims
    /\ UNCHANGED << vreq, vran >>

\* The outcomes of get_real_weather: data, unknown city, provider failure.
ProviderOutcomes == { "ok", "not_found", "geocoding_failed", "weather_api_failed" }

\* get_weather: the view function behind GET /weather.
get_weather ==
    /\ vpc = "view"
    /\ vreq.route = "weather"
    /\ vran' = vran + 1
    /\ \E o \in ProviderOutcomes :
         vresp' = IF o = "ok" THEN [ status |-> 200, error |-> "" ]
                  ELSE [ status |-> 404, error |-> o ]
    /\ vpc' = "done"
    /\ UNCHANGED << vreq, token_claims >>

\* get_forecast: the view function behind GET /weather/forecast.  Its first
\* statement after reading the city reads WEATHER_DATA, a name the module
\* never binds: NameError, which Flask turns into a 500.
get_forecast ==
    /\ vpc = "view"
    /\ vreq.route = "forecast"
    /\ vran' = vran + 1
    /\ vresp' = [ status |-> 500, error |-> "NameError" ]
    /\ vpc' = "done"
    /\ UNCHANGED << vreq, token_claims >>

\* The response is sent; the server waits for the next request.
VRespond ==
    /\ vpc = "done"
    /\ vpc' = "idle"
    /\ vreq' = NoReq
    /\ token_claims' = NoTokenClaims
    /\ vresp' = NoResp
    /\ vran' = 0

(***************************************************************************)
(* weather-api serving requests on threads: each request has its own       *)
(* request object, which holds token_claims.                               *)
(***************************************************************************)
NHandlers == 2
Handlers == 1..NHandlers

\* The Authorization headers of the requests that overlap: none, one without
\* a token, one with a token.
HandlerHeaders == { <<>>, <<"B", "J">>, <<"B", "J", ".", "J", ".", "J">> }

\* The payloads of their tokens.
HandlerClaims ==
    { [ NoClaims EXCEPT !.appid = a, !.xms_frd = f ] : a \in AppIds, f \in FrdValues }

\* What get_weather answers: the 404 and the 200 of a validated request.
NoWeatherResponse ==
    [ status |-> 0, error |-> "", city |-> NoCity, validated_by |-> "",
      agent_app_id |-> "", is_agent_identity |-> "" ]

\* str.title(): every word with its first character upper case and the rest
\* lower case.
Title_Lower(city) == City(LowerAll(city.words), city.mark)

Title(city) ==
    City([ i \in 1..Len(city.words) |-> Capital(Lower(city.words[i])) ], city.mark)

WeatherResponse_Raises(claims, city, outcome) ==
    IF outcome = "ok"
    THEN [ status |-> 200, error |-> "", city |-> Title(city),
           validated_by |-> "Agent Identity Token", agent_app_id |-> claims.appid,
           is_agent_identity |-> IF claims.is_agent_identity THEN "true" ELSE "false" ]
    ELSE IF outcome = "not_found"
    THEN [ status |-> 404, error |-> outcome, city |-> city,
           validated_by |-> "Agent Identity Token", agent_app_id |-> claims.appid,
           is_agent_identity |-> "" ]
    ELSE [ NoWeatherResponse EXCEPT !.status = 500, !.error = outcome ]

WeatherResponse(claims, city, outcome) ==
    IF outcome = "ok"
    THEN [ status |-> 200, error |-> "", city |-> Title(city),
           validated_by |-> "Agent Identity Token", agent_app_id |-> claims.appid,
           is_agent_identity |-> IF claims.is_agent_identity THEN "true" ELSE "false" ]
    ELSE [ status |-> 404, error |-> outcome, city |-> city,
           validated_by |-> "Agent Identity Token", agent_app_id |-> claims.appid,
           is_agent_identity |-> "" ]

\* A request for GET /weather: its header, the payload of its token, and the
\* city of its query string.
NoWeatherRequest == [ hdr |-> <<>>, claims |-> NoClaims, route |-> "weather", city |-> NoCity ]

\* The city of the requests that overlap.
HandlerCities == { City(<<"Tokyo">>, "") }

\* request.token_claims = {...}: the attribute of the request object of the
\* thread that runs the decorator.
SetTokenClaims_Shared(ctx, t, claims) == [ u \in DOMAIN ctx |-> claims ]

SetTokenClaims(ctx, t, claims) == [ ctx EXCEPT ![t] = claims ]

(***************************************************************************)
(* llm-agent-aws: the agent.                                               *)
(* Worker threads serve POST /api/chat.  A thread gives way to the others  *)
(* where it blocks: in time.sleep, in agent.invoke's calls of the backend, *)
(* in the requests to the broker and to the resource server.               *)
(***************************************************************************)
MaxRequests == 2
MaxToolRounds == 1
MaxTicks == 2

NWorkers == 2
Workers == 1..NWorkers

recursion_limit == 10

\* time.time() when the process starts: far more than the spacing after 0.
Epoch == 5 * BEDROCK_RATE_LIMIT_SECONDS
TickStep == BEDROCK_RATE_LIMIT_SECONDS \div 2
MaxClock == Epoch + MaxTicks * TickStep

Query(ws, tail) == [ words |-> ws, tail |-> tail ]
EmptyMessage == Query(<<>>, "")

\* The messages users send in the model.
Messages ==
    { EmptyMessage,
      Query(<<"weather", "in", "Tokyo">>, "?"),
      Query(<<"weather">>, ""),
      Query(<<"hello">>, "") }

\* The city arguments the decision loop passes to the tool.
LLMCities == { City(<<"Tokyo">>, "") }

\* What the broker's answer is to get_agent_token.
BrokerOutcomes ==
    { "network_error",      \* requests.get raises
      "http_error",         \* raise_for_status raises
      "bad_body",           \* response.json() raises, or the body is no object
      "no_field",           \* no authorizationHeader in the body, or an empty one
      "opaque_token",       \* a token decode_jwt_payload returns None for
      "token" }             \* a token whose claims decode

\* What the resource server's answer is to call_weather_api.
ResourceOutcomes ==
    { "network_error",      \* requests.get raises
      "http_error",         \* raise_for_status raises: 401, 404, 500
      "bad_json",           \* response.json() raises
      "empty_body",         \* a falsy JSON value: {}, null, [], 0, ""
      "not_an_object",      \* a truthy JSON value that is no object
      "weather" }           \* the weather record

\* Response texts.
AUTH_ERROR == "Error: Could not authenticate with Agent Identity."
API_ERROR == "Error: Could not get weather data for the city."
WEATHER == "Weather for the city"
LLM_ANSWER == "the decision loop's final message"
AGENT_ERROR == "Agent error"
NONE == "None"

\* log_debug, once per step label: the records carry the request that wrote them.
Log(tr, id, steps) == tr \o [ i \in 1..Len(steps) |-> [ req |-> id, step |-> steps[i] ] ]

NoRequest ==
    [ id |-> 0, query |-> EmptyMessage, use_langchain |-> FALSE,
      available |-> "not_called" ]
NoLocals ==
    [ wake |-> 0, arrive |-> 0, wait_time |-> 0, cont |-> "", city |-> NoCity,
      tool_called |-> FALSE, rounds |-> 0, tools |-> 0, fetches |-> 0,
      apicalls |-> 0, token |-> NONE, tool_result |-> NONE, mode |-> "",
      broker |-> "", resource |-> "", invoke |-> "",
      weather |-> NoWeatherResponse ]
NoResponse == [ status |-> 0, response |-> NONE, success |-> FALSE, debug |-> <<>> ]

(***************************************************************************)
(* The queries the two city extractors are run on.                         *)
(***************************************************************************)
MaxWords == 4

NamedQueries ==
    { Query(<<"What", "is", "the", "weather", "in", "Dallas">>, "?"),
      Query(<<"Show", "forecast", "for", "New", "York">>, ""),
      Query(<<"weather", "Seattle">>, ""),
      Query(<<"weather">>, "") }

Queries ==
    { Query(ws, t) : ws \in SeqsUpTo(Vocab, MaxWords), t \in Tails } \cup NamedQueries

\* The extracted city, given to the extractor as a query.
AsQuery(city) == Query(city.words, city.mark)

(***************************************************************************)
(* The tokens decode_jwt_payload is run on.                                *)
(* A token is a string or not; a string starts with 'Bearer ' or not, has  *)
(* a number of dot-separated segments after that, and a second segment:    *)
(*   "object"        base64url of a JSON object                            *)
(*   "object_noise"  the same with characters outside the alphabet among   *)
(*                   it ('!', blanks), four at a time                      *)
(*   "object_std"    standard base64 with '+' or '/' of a JSON object      *)
(*   "scalar"        base64url of a JSON value that is no object and not   *)
(*                   falsy (5, [1])                                        *)
(*   "text"          base64url of bytes that are no JSON                   *)
(*   "junk"          characters outside the alphabet only                  *)
(*   "bad_length"    base64url characters, one more than a multiple of 4   *)
(*   ""              the empty segment                                     *)
(***************************************************************************)
MaxSegments == 4

SegmentKinds ==
    { "object", "object_noise", "object_std", "scalar", "text", "junk", "bad_length", "" }

\* The second segments that are not base64url.
NotBase64Url == { "object_noise", "object_std", "junk", "bad_length" }

\* The second segments urlsafe_b64decode and json.loads get an object from.
YieldsObject == { "object", "object_noise", "object_std" }

\* The claims of a payload: those get_agent_token displays, the federation
\* marker, and "sub" for any other claim.
DisplayKeys ==
    { "aud", "iss", "app_displayname", "appid", "oid", "roles", "tid", "exp", "iat" }
PayloadKeys == DisplayKeys \cup { "xms_frd", "sub" }

Token(string, bearer, nsegs, payload, keys) ==
    [ string |-> string, bearer |-> bearer, nsegs |-> nsegs, payload |-> payload,
      keys |-> keys ]

\* The empty string.
NoToken == Token(TRUE, FALSE, 1, "", {})

Tokens ==
    { Token(FALSE, FALSE, 1, "", {}) }
    \cup { Token(TRUE, b, 1, "", {}) : b \in BOOLEAN }
    \cup { Token(TRUE, b, n, p, {}) :
             b \in BOOLEAN, n \in 2..MaxSegments, p \in SegmentKinds \ YieldsObject }
    \cup { Token(TRUE, b, n, p, k) :
             b \in BOOLEAN, n \in 2..MaxSegments, p \in YieldsObject,
             k \in SUBSET PayloadKeys }

\* What decode_jwt_payload returns: None, or what json.loads made.
NoPayload == [ kind |-> "None", keys |-> {} ]

\* decode_jwt_payload: a leading 'Bearer ' is cut off, the rest is split at
\* the dots; urlsafe_b64decode drops the characters outside its alphabet and
\* takes '+' and '/' as well as '-' and '_'; every exception gives None.
decode_jwt_payload(token) ==
    IF ~token.string THEN NoPayload
    ELSE IF token.nsegs # 3 THEN NoPayload
    ELSE IF token.payload \in YieldsObject
         THEN [ kind |-> "object", keys |-> token.keys ]
    ELSE IF token.payload = "scalar" THEN [ kind |-> "scalar", keys |-> {} ]
    ELSE NoPayload

\* display_claims of get_agent_token: claims.get(key, "N/A"), and
\* claims.get("roles", []).
display_claims(claims) ==
    [ k \in DisplayKeys |->
        IF k \in claims.keys THEN "value" ELSE IF k = "roles" THEN "[]" ELSE "N/A" ]

\* What get_agent_token returns: None, or a value.
Returned(value) == [ none |-> FALSE, value |-> value ]
ReturnedNone == [ none |-> TRUE, value |-> NoToken ]

NoDisplay == [ step |-> "", jwt_claims |-> <<>>, returns |-> ReturnedNone ]

\* get_agent_token from "claims = decode_jwt_payload(auth_header)" on: under
\* "if claims:" the record with display_claims, and "return auth_header";
\* claims.get raises on a value that is no object, which the except clause
\* logs before it returns None.
Display(auth_header, claims) ==
    IF claims.kind = "None" \/ (claims.kind = "object" /\ claims.keys = {})
    THEN [ NoDisplay EXCEPT !.returns = Returned(auth_header) ]
    ELSE IF claims.kind = "scalar"
         THEN [ step |-> "2. TOKEN ERROR", jwt_claims |-> <<>>, returns |-> ReturnedNone ]
    ELSE [ step |-> "2.C TOKEN RECEIVED", jwt_claims |-> display_claims(claims),
           returns |-> Returned(auth_header) ]

\* call_weather_api: no request sent, and the headers of the request sent.
NoHeader == [ sent |-> FALSE, Authorization |-> NoToken ]

headers_AddsBearer(token) ==
    [ sent |-> TRUE, Authorization |-> [ token EXCEPT !.bearer = TRUE ] ]

headers(token) == [ sent |-> TRUE, Authorization |-> token ]

\* The data of a trace record: a text, with the token written into it or not.
Text(s) == [ text |-> s, token |-> NoToken, verbatim |-> FALSE ]
NoData == Text("")

\* call_weather_api: the data of the record "3.B API URL".
api_url_data_Header(token) ==
    [ text |-> "Authorization: ", token |-> token, verbatim |-> TRUE ]

api_url_data(token) == Text("Authorization: Bearer <token>")

\* The two processes after start-up: the resource server waits for a request,
\* the agent has served none.  The extractors and the claims decoder are
\* about to run on a query and on a token.
\* GET /health: no answer yet.
NoHealth == [ code |-> 0, status |-> "", service |-> "", auth_header |-> <<>> ]

Startup(library_loaded, overlap, queries, tokens, configs, services) ==
    /\ hservice \in services
    /\ hresp = NoHealth
    /\ rpc = [ w \in Workers |-> "idle" ]
    /\ rtime = [ w \in Workers |-> 0 ]
    /\ ppc = [ t \in Handlers |-> "idle" ]
    /\ preq = [ t \in Handlers |-> NoWeatherRequest ]
    /\ pctx = [ t \in Handlers |-> NoTokenClaims ]
    /\ presp = [ t \in Handlers |-> NoWeatherResponse ]
    /\ lconfig \in configs
    /\ lpc = "agent"
    /\ lsteps = 0
    /\ ltools = 0
    /\ lresult = NONE
    /\ xpc = "start"
    /\ xq \in queries
    /\ xcity = NoCity
    /\ xfallback = NoCity
    /\ xagain = NoCity
    /\ dpc = "start"
    /\ dtoken \in tokens
    /\ dclaims = NoPayload
    /\ ddisplay = NoDisplay
    /\ dheader = NoHeader
    /\ dlogged = NoData
    /\ vpc = "idle"
    /\ vreq = NoReq
    /\ token_claims = NoTokenClaims
    /\ vresp = NoResp
    /\ vran = 0
    /\ clock = Epoch
    /\ last_bedrock_call_time = 0
    /\ debug_logs = <<>>
    /\ LANGCHAIN_AVAILABLE \in library_loaded
    /\ threaded = overlap
    /\ nreq = 0
    /\ pc = [ w \in Workers |-> "idle" ]
    /\ req = [ w \in Workers |-> NoRequest ]
    /\ loc = [ w \in Workers |-> NoLocals ]
    /\ resp = [ w \in Workers |-> NoResponse ]
    /\ starts = <<>>
    /\ completes = <<>>

\* The two processes with a /health route.
Services == { "llm-agent-aws", "weather-api" }

\* The inputs of the runs with overlapping requests are a part of the inputs
\* of the runs with one request at a time.
MessageScope ==
    IF threaded THEN { EmptyMessage, Query(<<"weather", "in", "Tokyo">>, "?") }
    ELSE Messages
BrokerScope == IF threaded THEN { "network_error", "token" } ELSE BrokerOutcomes
ResourceScope == IF threaded THEN { "http_error", "weather" } ELSE ResourceOutcomes
ClockScope == IF threaded THEN Epoch + 2 * TickStep ELSE MaxClock

(***************************************************************************)
(* A step of worker w is an effect on the shared state and on w's own:     *)
(*   tr     the list debug_logs names after the step                       *)
(*   last   last_bedrock_call_time after the step                          *)
(*   began  agent.invoke was entered in the step                           *)
(*   ended  agent.invoke ended in the step: "", "returned" or "raised"     *)
(***************************************************************************)
Effect(tr, last, newpc, newloc, newresp) ==
    [ tr |-> tr, last |-> last, pc |-> newpc, loc |-> newloc, resp |-> newresp,
      began |-> FALSE, ended |-> "" ]

Apply(w, e) ==
    /\ debug_logs' = e.tr
    /\ last_bedrock_call_time' = e.last
    /\ pc' = [ pc EXCEPT ![w] = e.pc ]
    /\ loc' = [ loc EXCEPT ![w] = e.loc ]
    /\ resp' = [ resp EXCEPT ![w] = e.resp ]
    /\ starts' = IF e.began THEN Append(starts, clock) ELSE starts
    /\ completes' = IF e.ended = "" THEN completes
                    ELSE Append(completes, [ at |-> clock, ok |-> e.ended = "returned" ])

\* chat: return jsonify(result), of the dict process_* returned; "debug" is
\* the list debug_logs names.
Jsonify(tr, response, success) ==
    [ status |-> 200, response |-> response, success |-> success, debug |-> tr ]

\* get_weather_data up to the request get_agent_token sends to the broker.
ToolBegin(id, tr, city, cont, l) ==
    Effect(Log(tr, id, <<"1. TOOL CALLED", "2.A TOKEN REQUEST", "2.B REQUEST URL">>),
           last_bedrock_call_time, "tc_token",
           [ l EXCEPT !.cont = cont, !.city = city, !.tools = l.tools + 1,
                      !.fetches = 0, !.apicalls = 0, !.token = NONE,
                      !.tool_result = NONE, !.broker = "", !.resource = "",
                      !.weather = NoWeatherResponse ],
           NoResponse)

\* process_with_langchain from "if not tool_called: log NO TOOL" to its return.
LoopFinish(id, tr, l, output) ==
    LET done == Log(IF l.tool_called THEN tr ELSE Log(tr, id, <<"1. NO TOOL">>),
                    id, <<"5. COMPLETE">>)
    IN  Effect(done, clock, "sent", l, Jsonify(done, output, TRUE))

\* process_with_langchain's except clause.
LoopExcept_Propagates(id, tr, l) ==
    Effect(tr, last_bedrock_call_time, "sent", l,
           [ status |-> 500, response |-> NONE, success |-> FALSE, debug |-> <<>> ])

LoopExcept(id, tr, l) ==
    LET done == Log(tr, id, <<"ERROR">>)
    IN  Effect(done, last_bedrock_call_time, "sent", l, Jsonify(done, AGENT_ERROR, FALSE))

\* get_weather_data returned r to its caller: the decision loop's tool node,
\* the fallback of process_with_langchain, or process_without_llm.
ToolReturn_FailsOnError(id, tr, l0, r) ==
    LET l == [ l0 EXCEPT !.tool_result = r ]
        done == Log(tr, id, <<"5. COMPLETE">>)
    IN  CASE l.cont = "loop" ->
               Effect(tr, last_bedrock_call_time, "lc_invoke",
                      [ l EXCEPT !.rounds = l.rounds + 1 ], NoResponse)
          [] l.cont = "fallback" ->
               LoopFinish(id, tr, [ l EXCEPT !.tool_called = TRUE ], r)
          [] l.cont = "direct" ->
               Effect(done, last_bedrock_call_time, "sent", l, Jsonify(done, r, r = WEATHER))

ToolReturn(id, tr, l0, r) ==
    LET l == [ l0 EXCEPT !.tool_result = r ]
        done == Log(tr, id, <<"5. COMPLETE">>)
    IN  CASE l.cont = "loop" ->
               Effect(tr, last_bedrock_call_time, "lc_invoke",
                      [ l EXCEPT !.rounds = l.rounds + 1 ], NoResponse)
          [] l.cont = "fallback" ->
               LoopFinish(id, tr, [ l EXCEPT !.tool_called = TRUE ], r)
          [] l.cont = "direct" ->
               Effect(done, last_bedrock_call_time, "sent", l, Jsonify(done, r, TRUE))

\* get_weather_data raised: weather.get on a body that is no JSON object.  The
\* loop's tool node hands the error to the backend as the tool's message, the
\* fallback is inside the try of process_with_langchain, and nothing catches
\* it in process_without_llm or chat: Flask answers 500.
ToolRaise(id, tr, l0) ==
    LET l == [ l0 EXCEPT !.tool_result = "raised" ]
    IN  CASE l.cont = "loop" ->
               Effect(tr, last_bedrock_call_time, "lc_invoke",
                      [ l EXCEPT !.rounds = l.rounds + 1 ], NoResponse)
          [] l.cont = "fallback" -> LoopExcept(id, tr, l)
          [] l.cont = "direct" ->
               Effect(tr, last_bedrock_call_time, "sent", l,
                      [ status |-> 500, response |-> NONE, success |-> FALSE,
                        debug |-> <<>> ])

\* process_with_langchain from clear_debug to agent.invoke.
LoopBegin(id, l) ==
    LET tr == Log(<<>>, id, <<"0. START", "0. BEDROCK">>)
    IN  { LoopExcept(id, tr, l),              \* create_weather_agent raises
          [ Effect(Log(tr, id, <<"0. AGENT READY">>), last_bedrock_call_time,
                   "lc_invoke", l, NoResponse) EXCEPT !.began = TRUE ] }

\* process_with_langchain: the rate limiter, then on to agent.invoke, or into
\* time.sleep.
RateLimit(id) ==
    LET time_since_last_call == clock - last_bedrock_call_time
        wait_time == BEDROCK_RATE_LIMIT_SECONDS - time_since_last_call
        l == [ NoLocals EXCEPT !.arrive = clock, !.mode = "loop" ]
    IN  IF time_since_last_call < BEDROCK_RATE_LIMIT_SECONDS
        THEN { Effect(Log(debug_logs, id, <<"0. RATE LIMIT">>), last_bedrock_call_time,
                      "sleep",
                      [ l EXCEPT !.wake = clock + wait_time, !.wait_time = wait_time ],
                      NoResponse) }
        ELSE LoopBegin(id, l)

\* process_without_llm up to the request get_agent_token sends to the broker.
DirectBegin_Stamps(id, q) ==
    [ ToolBegin(id, Log(<<>>, id, <<"0. START", "1. DIRECT CALL">>), ExtractCity(q),
                "direct", [ NoLocals EXCEPT !.mode = "direct" ])
        EXCEPT !.last = clock ]

DirectBegin(id, q) ==
    ToolBegin(id, Log(<<>>, id, <<"0. START", "1. DIRECT CALL">>), ExtractCity(q),
              "direct", [ NoLocals EXCEPT !.mode = "direct" ])

\* chat: "if not user_message: return jsonify({"error": ...}), 400".
NoMessage_Clears ==
    Effect(<<>>, last_bedrock_call_time, "sent", NoLocals,
           [ status |-> 400, response |-> "No message provided", success |-> FALSE,
             debug |-> <<>> ])

NoMessage ==
    Effect(debug_logs, last_bedrock_call_time, "sent", NoLocals,
           [ status |-> 400, response |-> "No message provided", success |-> FALSE,
             debug |-> <<>> ])

\* chat: "if use_langchain and LANGCHAIN_AVAILABLE and check_bedrock_available()",
\* with the answer of check_bedrock_available.
UseLoop_IgnoresLibrary(use_langchain, check) == use_langchain /\ check

UseLoop(use_langchain, check) == use_langchain /\ LANGCHAIN_AVAILABLE /\ check

\* What chat learnt from check_bedrock_available: "and" calls it only when the
\* flag and the library are there.
Availability(user_message, use_langchain, check) ==
    IF IsEmptyMessage(user_message) \/ ~(use_langchain /\ LANGCHAIN_AVAILABLE)
    THEN "not_called"
    ELSE IF check THEN "available" ELSE "unavailable"

\* chat: POST /api/chat with one of the messages.  The worker takes the
\* request and runs it up to the first call that blocks.  A server that is
\* not threaded has one worker.
ChatWith(w, messages) ==
    /\ pc[w] \in { "idle", "sent" }
    /\ nreq < MaxRequests
    /\ threaded \/ w = 1
    /\ \E user_message \in messages, use_langchain \in BOOLEAN,
          check_bedrock_available \in BOOLEAN :
         LET id == nreq + 1
         IN  /\ req' = [ req EXCEPT ![w] =
                           [ id |-> id, query |-> user_message,
                             use_langchain |-> use_langchain,
                             available |-> Availability(user_message, use_langchain,
                                                        check_bedrock_available) ] ]
             /\ IF IsEmptyMessage(user_message)
                THEN Apply(w, NoMessage)
                ELSE IF UseLoop(use_langchain, check_bedrock_available)
                THEN \E e \in RateLimit(id) : Apply(w, e)
                ELSE Apply(w, DirectBegin(id, user_message))
    /\ nreq' = nreq + 1
    /\ UNCHANGED << clock, LANGCHAIN_AVAILABLE, threaded >>

chat(w) == ChatWith(w, MessageScope)

\* process_with_langchain: time.sleep(wait_time) returns.
sleep_returns(w) ==
    /\ pc[w] = "sleep"
    /\ clock >= loc[w].wake
    /\ \E e \in LoopBegin(req[w].id, loc[w]) : Apply(w, e)
    /\ UNCHANGED << clock, LANGCHAIN_AVAILABLE, threaded, nreq, req >>

\* process_with_langchain between agent.invoke's return and the next call
\* that blocks: tool-call detection, the fallback, the result.
AfterInvoke_IgnoresToolCalls(id, q, l) ==
    LET fb == Log(debug_logs, id, <<"1. FALLBACK">>)
        city == FallbackCity(q)
    IN  IF HasKeyword(q) /\ city # NoCity
        THEN ToolBegin(id, Log(fb, id, <<"2. CITY DETECTED">>), city, "fallback", l)
        ELSE LoopFinish(id, debug_logs, l, LLM_ANSWER)

AfterInvoke(id, q, l) ==
    LET fb == Log(debug_logs, id, <<"1. FALLBACK">>)
        city == FallbackCity(q)
    IN  IF ~l.tool_called /\ HasKeyword(q)
        THEN IF city # NoCity
             THEN ToolBegin(id, Log(fb, id, <<"2. CITY DETECTED">>), city, "fallback", l)
             ELSE LoopFinish(id, Log(fb, id, <<"2. NO CITY">>), l, LLM_ANSWER)
        ELSE LoopFinish(id, debug_logs, l, LLM_ANSWER)

\* One step of the decision loop inside agent.invoke: the backend raises, asks
\* for the tool, or gives its final message.  Each model step and each tool
\* step counts against recursion_limit.
llm_step(w) ==
    /\ pc[w] = "lc_invoke"
    /\ \E decision \in { "raise", "tool", "final" } :
         CASE decision = "raise" ->
                Apply(w, [ LoopExcept(req[w].id, debug_logs,
                                      [ loc[w] EXCEPT !.invoke = "raised" ])
                             EXCEPT !.ended = "raised" ])
           [] decision = "tool" ->
                /\ loc[w].rounds < MaxToolRounds
                /\ 2 * loc[w].rounds + 2 <= recursion_limit
                /\ \E city \in LLMCities :
                     Apply(w, ToolBegin(req[w].id, debug_logs, city, "loop",
                                        [ loc[w] EXCEPT !.tool_called = TRUE ]))
           [] decision = "final" ->
                /\ 2 * loc[w].rounds + 1 <= recursion_limit
                /\ Apply(w, [ AfterInvoke(req[w].id, req[w].query,
                                           [ loc[w] EXCEPT !.invoke = "returned" ])
                                EXCEPT !.ended = "returned" ])
    /\ UNCHANGED << clock, LANGCHAIN_AVAILABLE, threaded, nreq, req >>

\* get_agent_token from the broker's answer on: the records it appends and
\* the value it returns.
get_agent_token(outcome) ==
    CASE outcome \in { "network_error", "http_error", "bad_body" } ->
           [ steps |-> <<"2. TOKEN ERROR">>, token |-> NONE ]
      [] outcome = "no_field" -> [ steps |-> <<>>, token |-> "" ]
      [] outcome = "opaque_token" -> [ steps |-> <<>>, token |-> "opaque" ]
      [] outcome = "token" -> [ steps |-> <<"2.C TOKEN RECEIVED">>, token |-> "jwt" ]

\* call_weather_api from the resource server's answer on.
call_weather_api(outcome) ==
    CASE outcome \in { "network_error", "http_error", "bad_json" } ->
           [ steps |-> <<"3. WEATHER ERROR">>, weather |-> NONE ]
      [] outcome = "empty_body" -> [ steps |-> <<"3.C API RESPONSE">>, weather |-> "" ]
      [] outcome = "not_an_object" ->
           [ steps |-> <<"3.C API RESPONSE">>, weather |-> "list" ]
      [] outcome = "weather" -> [ steps |-> <<"3.C API RESPONSE">>, weather |-> "dict" ]

\* get_weather_data once get_agent_token returned: "if not token: return ...",
\* else on to the request call_weather_api sends.
AfterToken_Retry(id, tr, l) ==
    IF l.token \in { NONE, "" }
    THEN IF l.fetches < 2
         THEN Effect(tr, last_bedrock_call_time, "tc_token", l, NoResponse)
         ELSE ToolReturn(id, tr, l, AUTH_ERROR)
    ELSE Effect(Log(tr, id, <<"3.A API CALL", "3.B API URL">>), last_bedrock_call_time,
                "tc_api", l, NoResponse)

AfterToken_Unchecked(id, tr, l) ==
    Effect(Log(tr, id, <<"3.A API CALL", "3.B API URL">>), last_bedrock_call_time,
           "tc_api", l, NoResponse)

AfterToken(id, tr, l) ==
    IF l.token \in { NONE, "" }
    THEN ToolReturn(id, tr, l, AUTH_ERROR)
    ELSE Effect(Log(tr, id, <<"3.A API CALL", "3.B API URL">>), last_bedrock_call_time,
                "tc_api", l, NoResponse)

\* get_weather_data once call_weather_api returned: "if not weather: return
\* ...", else the formatted result.
AfterWeather_SecondCall(id, tr, l, weather) ==
    IF weather \in { NONE, "" }
    THEN IF l.tools < 2 THEN ToolBegin(id, tr, l.city, l.cont, l)
         ELSE ToolReturn(id, tr, l, API_ERROR)
    ELSE IF weather = "list" THEN ToolRaise(id, tr, l)
    ELSE ToolReturn(id, Log(tr, id, <<"4. TOOL RESULT">>), l, WEATHER)

AfterWeather(id, tr, l, weather) ==
    IF weather \in { NONE, "" } THEN ToolReturn(id, tr, l, API_ERROR)
    ELSE IF weather = "list" THEN ToolRaise(id, tr, l)
    ELSE ToolReturn(id, Log(tr, id, <<"4. TOOL RESULT">>), l, WEATHER)

\* get_weather_data: the broker answered.
token_response(w) ==
    /\ pc[w] = "tc_token"
    /\ \E outcome \in BrokerScope :
         LET got == get_agent_token(outcome)
         IN  Apply(w, AfterToken(req[w].id, Log(debug_logs, req[w].id, got.steps),
                                 [ loc[w] EXCEPT !.fetches = loc[w].fetches + 1,
                                                 !.token = got.token,
                                                 !.broker = outcome ]))
    /\ UNCHANGED << clock, LANGCHAIN_AVAILABLE, threaded, nreq, req >>

\* get_weather_data: the resource server answered.
api_response(w) ==
    /\ pc[w] = "tc_api"
    /\ \E outcome \in ResourceScope :
         LET got == call_weather_api(outcome)
         IN  Apply(w, AfterWeather(req[w].id, Log(debug_logs, req[w].id, got.steps),
                                   [ loc[w] EXCEPT !.apicalls = loc[w].apicalls + 1,
                                                   !.resource = outcome ],
                                   got.weather))
    /\ UNCHANGED << clock, LANGCHAIN_AVAILABLE, threaded, nreq, req >>

\* Time passes.
Tick ==
    /\ clock + TickStep <= ClockScope
    /\ clock' = clock + TickStep
    /\ UNCHANGED << last_bedrock_call_time, debug_logs, LANGCHAIN_AVAILABLE, threaded,
                    nreq, pc, req, loc, resp, starts, completes >>

ANext ==
    \/ \E w \in Workers : chat(w) /\ UNCHANGED << vvars, xvars, dvars, lvars, pvars, hvars, rvars >>
    \/ \E w \in Workers : sleep_returns(w) /\ UNCHANGED << vvars, xvars, dvars, lvars, pvars, hvars, rvars >>
    \/ \E w \in Workers : llm_step(w) /\ UNCHANGED << vvars, xvars, dvars, lvars, pvars, hvars, rvars >>
    \/ \E w \in Workers : token_response(w) /\ UNCHANGED << vvars, xvars, dvars, lvars, pvars, hvars, rvars >>
    \/ \E w \in Workers : api_response(w) /\ UNCHANGED << vvars, xvars, dvars, lvars, pvars, hvars, rvars >>
    \/ Tick /\ UNCHANGED << vvars, xvars, dvars, lvars, pvars, hvars, rvars >>

VNext ==
    \/ VReceive /\ UNCHANGED << avars, xvars, dvars, lvars, pvars, hvars, rvars >>
    \/ validate_token /\ UNCHANGED << avars, xvars, dvars, lvars, pvars, hvars, rvars >>
    \/ get_weather /\ UNCHANGED << avars, xvars, dvars, lvars, pvars, hvars, rvars >>
    \/ get_forecast /\ UNCHANGED << avars, xvars, dvars, lvars, pvars, hvars, rvars >>
    \/ VRespond /\ UNCHANGED << avars, xvars, dvars, lvars, pvars, hvars, rvars >>

\* The resource server alone, the agent process alone with its requests on
\* threads, and the agent process with its requests one after the other.
VInit == Startup({ FALSE }, FALSE, { EmptyMessage }, { NoToken }, { "bedrock" }, { "llm-agent-aws" })

AInit == Startup({ TRUE }, TRUE, { EmptyMessage }, { NoToken }, { "bedrock" }, { "llm-agent-aws" })

SeqInit == Startup(BOOLEAN, FALSE, { EmptyMessage }, { NoToken }, { "bedrock" }, { "llm-agent-aws" })

SpecValidator == VInit /\ [][VNext]_vars

SpecAgent == AInit /\ [][ANext]_vars

SpecSeq == SeqInit /\ [][ANext]_vars

(***************************************************************************)
(* The city extractors, run on a query.                                    *)
(***************************************************************************)
\* process_without_llm: the city it extracts from the query.
ExtractDirect ==
    /\ xpc = "start"
    /\ xcity' = ExtractCity(xq)
    /\ xpc' = "direct"
    /\ UNCHANGED << xq, xfallback, xagain >>

\* process_with_langchain: the city its fallback extracts from the query.
ExtractFallback ==
    /\ xpc = "direct"
    /\ xfallback' = FallbackCity(xq)
    /\ xpc' = "both"
    /\ UNCHANGED << xq, xcity, xagain >>

\* process_without_llm: the city it extracts from the extracted city.
ExtractAgain ==
    /\ xpc = "both"
    /\ xagain' = ExtractCity(AsQuery(xcity))
    /\ xpc' = "again"
    /\ UNCHANGED << xq, xcity, xfallback >>

XNext ==
    \/ ExtractDirect /\ UNCHANGED << vvars, avars, dvars, lvars, pvars, hvars, rvars >>
    \/ ExtractFallback /\ UNCHANGED << vvars, avars, dvars, lvars, pvars, hvars, rvars >>
    \/ ExtractAgain /\ UNCHANGED << vvars, avars, dvars, lvars, pvars, hvars, rvars >>

XInit == Startup({ FALSE }, FALSE, Queries, { NoToken }, { "bedrock" }, { "llm-agent-aws" })

SpecExtract == XInit /\ [][XNext]_vars

(***************************************************************************)
(* The claims decoder, run on a token.                                     *)
(***************************************************************************)
\* decode_jwt_payload(token)
DecodeToken ==
    /\ dpc = "start"
    /\ dclaims' = decode_jwt_payload(dtoken)
    /\ dpc' = "decoded"
    /\ UNCHANGED << dtoken, ddisplay, dheader, dlogged >>

\* get_agent_token: the claims shown in the trace.
DisplayToken ==
    /\ dpc = "decoded"
    /\ ddisplay' = Display(dtoken, dclaims)
    /\ dpc' = "displayed"
    /\ UNCHANGED << dtoken, dclaims, dheader, dlogged >>

\* get_weather_data from get_agent_token's return on: "if not token: return
\* ...", else call_weather_api up to requests.get: the record "3.B API URL",
\* and the request, which is sent unless a header value is no string.  A
\* value that is no string is taken as a true one.
ApiRequest ==
    /\ dpc = "displayed"
    /\ dheader' = IF \/ ddisplay.returns.none
                     \/ ddisplay.returns.value = NoToken
                     \/ ~ddisplay.returns.value.string
                  THEN NoHeader
                  ELSE headers(ddisplay.returns.value)
    /\ dlogged' = IF ddisplay.returns.none \/ ddisplay.returns.value = NoToken
                  THEN NoData
                  ELSE api_url_data(ddisplay.returns.value)
    /\ dpc' = "called"
    /\ UNCHANGED << dtoken, dclaims, ddisplay >>

DNext ==
    \/ DecodeToken /\ UNCHANGED << vvars, avars, xvars, lvars, pvars, hvars, rvars >>
    \/ DisplayToken /\ UNCHANGED << vvars, avars, xvars, lvars, pvars, hvars, rvars >>
    \/ ApiRequest /\ UNCHANGED << vvars, avars, xvars, lvars, pvars, hvars, rvars >>

DInit == Startup({ FALSE }, FALSE, { EmptyMessage }, Tokens, { "bedrock" }, { "llm-agent-aws" })

SpecDecoder == DInit /\ [][DNext]_vars

(***************************************************************************)
(* The decision loop inside agent.invoke, for each agent                   *)
(* create_weather_agent builds:                                            *)
(*   "bedrock"   llm-agent-aws: the LangGraph agent, invoked with          *)
(*               recursion_limit                                           *)
(*   "react"     llm-agent: the LangGraph agent, invoked without a         *)
(*               configuration                                             *)
(*   "executor"  llm-agent: AgentExecutor with max_iterations              *)
(* A step is a run of the agent node, which asks the backend, or of the    *)
(* tools node, which runs get_weather.                                     *)
(***************************************************************************)
Configs == { "bedrock", "react", "executor" }

\* AgentExecutor(..., max_iterations=3)
max_iterations == 3

\* The limit LangGraph sets when invoke is given none.
default_recursion_limit == 25

\* The steps agent.invoke may take, and what it does at the limit: the
\* LangGraph agents raise GraphRecursionError, AgentExecutor returns.
StepLimit(config) ==
    CASE config = "bedrock" -> recursion_limit
      [] config = "react" -> default_recursion_limit
      [] config = "executor" -> 2 * max_iterations

\* The agent node: the backend asks for the tool or gives its final message.
agent_node ==
    /\ lpc = "agent"
    /\ lsteps < StepLimit(lconfig)
    /\ lsteps' = lsteps + 1
    /\ \E tool_calls \in BOOLEAN : lpc' = IF tool_calls THEN "tools" ELSE "returned"
    /\ UNCHANGED << lconfig, ltools, lresult >>

\* The tools node: get_weather runs, and its result goes to the backend.
tools_node ==
    /\ lpc = "tools"
    /\ lsteps < StepLimit(lconfig)
    /\ lsteps' = lsteps + 1
    /\ ltools' = ltools + 1
    /\ lresult' \in { WEATHER, AUTH_ERROR, API_ERROR }
    /\ lpc' = "agent"
    /\ UNCHANGED lconfig

\* The limit is reached before the backend gave its final message.
limit_reached ==
    /\ lpc \in { "agent", "tools" }
    /\ lsteps >= StepLimit(lconfig)
    /\ lpc' = IF lconfig = "executor" THEN "returned" ELSE "raised"
    /\ UNCHANGED << lconfig, lsteps, ltools, lresult >>

LNext ==
    \/ agent_node /\ UNCHANGED << vvars, avars, xvars, dvars, pvars, hvars, rvars >>
    \/ tools_node /\ UNCHANGED << vvars, avars, xvars, dvars, pvars, hvars, rvars >>
    \/ limit_reached /\ UNCHANGED << vvars, avars, xvars, dvars, pvars, hvars, rvars >>

LInit == Startup({ TRUE }, FALSE, { EmptyMessage }, { NoToken }, Configs, { "llm-agent-aws" })

SpecLoop == LInit /\ [][LNext]_vars

(***************************************************************************)
(* weather-api with requests that overlap.                                 *)
(***************************************************************************)
\* A request for GET /weather arrives on thread t.
PReceive(t) ==
    /\ ppc[t] = "idle"
    /\ \E h \in HandlerHeaders, city \in HandlerCities :
         \E c \in (IF "J" \in Range(h) THEN HandlerClaims ELSE { NoClaims }) :
            preq' = [ preq EXCEPT ![t] = [ hdr |-> h, claims |-> c, route |-> "weather",
                                          city |-> city ] ]
    /\ ppc' = [ ppc EXCEPT ![t] = "validate" ]
    /\ UNCHANGED << pctx, presp >>

\* validate_token.decorated on thread t.
PValidate(t) ==
    /\ ppc[t] = "validate"
    /\ LET v == decorated(preq[t].hdr, preq[t].claims)
       IN  IF v.ok
           THEN /\ pctx' = SetTokenClaims(pctx, t, v.claims)
                /\ ppc' = [ ppc EXCEPT ![t] = "view" ]
                /\ UNCHANGED presp
           ELSE /\ presp' = [ presp EXCEPT ![t] =
                                [ NoWeatherResponse EXCEPT !.status = 401, !.error = v.error ] ]
                /\ ppc' = [ ppc EXCEPT ![t] = "done" ]
                /\ UNCHANGED pctx
    /\ UNCHANGED preq

\* get_weather on thread t.
PView(t) ==
    /\ ppc[t] = "view"
    /\ \E o \in ProviderOutcomes :
         presp' = [ presp EXCEPT ![t] = WeatherResponse(pctx[t], preq[t].city, o) ]
    /\ ppc' = [ ppc EXCEPT ![t] = "done" ]
    /\ UNCHANGED << preq, pctx >>

\* The response of thread t is sent, and its request object is dropped.
PRespond(t) ==
    /\ ppc[t] = "done"
    /\ ppc' = [ ppc EXCEPT ![t] = "idle" ]
    /\ preq' = [ preq EXCEPT ![t] = NoWeatherRequest ]
    /\ pctx' = [ pctx EXCEPT ![t] = NoTokenClaims ]
    /\ presp' = [ presp EXCEPT ![t] = NoWeatherResponse ]

PNext ==
    \/ \E t \in Handlers : PReceive(t) /\ UNCHANGED << vvars, avars, xvars, dvars, lvars, hvars, rvars >>
    \/ \E t \in Handlers : PValidate(t) /\ UNCHANGED << vvars, avars, xvars, dvars, lvars, hvars, rvars >>
    \/ \E t \in Handlers : PView(t) /\ UNCHANGED << vvars, avars, xvars, dvars, lvars, hvars, rvars >>
    \/ \E t \in Handlers : PRespond(t) /\ UNCHANGED << vvars, avars, xvars, dvars, lvars, hvars, rvars >>

PInit == Startup({ FALSE }, FALSE, { EmptyMessage }, { NoToken }, { "bedrock" }, { "llm-agent-aws" })

SpecHandlers == PInit /\ [][PNext]_vars

(***************************************************************************)
(* The agent and weather-api together: the request call_weather_api sends  *)
(* is served by validate_token and get_weather, and their response is what *)
(* call_weather_api gets.  The decision-loop library is not loaded, so     *)
(* every chat request runs process_without_llm.                            *)
(***************************************************************************)
\* The messages users send when the two run together.
EndToEndMessages ==
    { EmptyMessage,
      Query(<<"weather", "in", "Tokyo">>, ""),
      Query(<<"Show", "forecast", "for", "New", "York">>, ""),
      Query(<<"weather">>, "") }

\* The Authorization header for the token the broker gave: 'Bearer ' and a
\* JWT, or 'Bearer ' and a string that is none.
AsHeader(token) ==
    IF token = "jwt" THEN <<"B", "J", ".", "J", ".", "J">> ELSE <<"B", "J">>

\* call_weather_api: requests.get(url, headers=headers) reaches weather-api.
resource_receives(w, t) ==
    /\ pc[w] = "tc_api"
    /\ \A u \in Handlers : ppc[u] = "idle"
    /\ \E c \in (IF loc[w].token = "jwt" THEN HandlerClaims ELSE { NoClaims }) :
         preq' = [ preq EXCEPT ![t] = [ hdr |-> AsHeader(loc[w].token), claims |-> c,
                                       route |-> "weather", city |-> loc[w].city ] ]
    /\ ppc' = [ ppc EXCEPT ![t] = "validate" ]
    /\ UNCHANGED << pctx, presp, avars >>

\* call_weather_api: the response of weather-api arrives; raise_for_status
\* raises on its 401 and its 404.
resource_responds(w, t) ==
    /\ pc[w] = "tc_api"
    /\ ppc[t] = "done"
    /\ LET outcome == IF presp[t].status = 200 THEN "weather" ELSE "http_error"
           got == call_weather_api(outcome)
       IN  Apply(w, AfterWeather(req[w].id, Log(debug_logs, req[w].id, got.steps),
                                 [ loc[w] EXCEPT !.apicalls = loc[w].apicalls + 1,
                                                 !.resource = outcome,
                                                 !.weather = IF outcome = "weather"
                                                             THEN presp[t]
                                                             ELSE NoWeatherResponse ],
                                 got.weather))
    /\ PRespond(t)
    /\ UNCHANGED << clock, LANGCHAIN_AVAILABLE, threaded, nreq, req >>

ENext ==
    \/ \E w \in Workers :
          ChatWith(w, EndToEndMessages) /\ UNCHANGED << vvars, xvars, dvars, lvars, pvars, hvars, rvars >>
    \/ \E w \in Workers : token_response(w) /\ UNCHANGED << vvars, xvars, dvars, lvars, pvars, hvars, rvars >>
    \/ \E w \in Workers, t \in Handlers :
          resource_receives(w, t) /\ UNCHANGED << vvars, xvars, dvars, lvars, hvars, rvars >>
    \/ \E t \in Handlers : PValidate(t) /\ UNCHANGED << vvars, avars, xvars, dvars, lvars, hvars, rvars >>
    \/ \E t \in Handlers : PView(t) /\ UNCHANGED << vvars, avars, xvars, dvars, lvars, hvars, rvars >>
    \/ \E w \in Workers, t \in Handlers :
          resource_responds(w, t) /\ UNCHANGED << vvars, xvars, dvars, lvars, hvars, rvars >>

EInit == Startup({ FALSE }, FALSE, { EmptyMessage }, { NoToken }, { "bedrock" }, { "llm-agent-aws" })

SpecEndToEnd == EInit /\ [][ENext]_vars

(***************************************************************************)
(* GET /health of the agent and of weather-api, served between the steps   *)
(* of the other requests of the process.  A run follows one process.       *)
(***************************************************************************)
ServiceName(service) ==
    IF service = "weather-api" THEN "Weather API" ELSE "LLM Weather Agent (AWS Bedrock)"

\* The Authorization header of a request for /health: none, or a bearer value.
HealthHeaders == { <<>>, <<"B", "J">> }

\* health: return jsonify({"status": "healthy", "service": ...}).
HealthResponse_RequiresToken(service, auth_header) ==
    IF auth_header = <<>>
    THEN [ code |-> 401, status |-> "", service |-> ServiceName(service),
           auth_header |-> auth_header ]
    ELSE [ code |-> 200, status |-> "healthy", service |-> ServiceName(service),
           auth_header |-> auth_header ]

HealthResponse(service, auth_header) ==
    [ code |-> 200, status |-> "healthy", service |-> ServiceName(service),
      auth_header |-> auth_header ]

health(service) ==
    /\ hservice = service
    /\ \E auth_header \in HealthHeaders : hresp' = HealthResponse(service, auth_header)
    /\ UNCHANGED hservice

HNext ==
    \/ /\ hservice = "llm-agent-aws"
       /\ chat(1)
       /\ UNCHANGED << vvars, xvars, dvars, lvars, pvars, hvars, rvars >>
    \/ /\ hservice = "llm-agent-aws"
       /\ sleep_returns(1)
       /\ UNCHANGED << vvars, xvars, dvars, lvars, pvars, hvars, rvars >>
    \/ /\ hservice = "llm-agent-aws"
       /\ llm_step(1)
       /\ UNCHANGED << vvars, xvars, dvars, lvars, pvars, hvars, rvars >>
    \/ /\ hservice = "llm-agent-aws"
       /\ token_response(1)
       /\ UNCHANGED << vvars, xvars, dvars, lvars, pvars, hvars, rvars >>
    \/ /\ hservice = "llm-agent-aws"
       /\ api_response(1)
       /\ UNCHANGED << vvars, xvars, dvars, lvars, pvars, hvars, rvars >>
    \/ /\ hservice = "llm-agent-aws"
       /\ Tick
       /\ UNCHANGED << vvars, xvars, dvars, lvars, pvars, hvars, rvars >>
    \/ /\ hservice = "weather-api"
       /\ PReceive(1)
       /\ UNCHANGED << vvars, avars, xvars, dvars, lvars, hvars, rvars >>
    \/ /\ hservice = "weather-api"
       /\ PValidate(1)
       /\ UNCHANGED << vvars, avars, xvars, dvars, lvars, hvars, rvars >>
    \/ /\ hservice = "weather-api"
       /\ PView(1)
       /\ UNCHANGED << vvars, avars, xvars, dvars, lvars, hvars, rvars >>
    \/ /\ hservice = "weather-api"
       /\ PRespond(1)
       /\ UNCHANGED << vvars, avars, xvars, dvars, lvars, hvars, rvars >>
    \/ \E s \in Services :
          health(s) /\ UNCHANGED << vvars, avars, xvars, dvars, lvars, pvars, rvars >>

HInit == Startup({ TRUE }, TRUE, { EmptyMessage }, { NoToken }, { "bedrock" }, Services)

SpecHealth == HInit /\ [][HNext]_vars

(***************************************************************************)
(* The rate limiter of process_with_langchain with its requests on         *)
(* threads: the read of last_bedrock_call_time, time.sleep, agent.invoke,  *)
(* and "last_bedrock_call_time = time.time()", where a thread can be       *)
(* suspended between the call of time.time() and the store to the global.  *)
(***************************************************************************)
\* time_since_last_call = time.time() - last_bedrock_call_time, and the test.
limiter_reads(w) ==
    /\ rpc[w] = "idle"
    /\ LET time_since_last_call == clock - last_bedrock_call_time
           wait_time == BEDROCK_RATE_LIMIT_SECONDS - time_since_last_call
       IN  IF time_since_last_call < BEDROCK_RATE_LIMIT_SECONDS
           THEN /\ rpc' = [ rpc EXCEPT ![w] = "sleep" ]
                /\ rtime' = [ rtime EXCEPT ![w] = clock + wait_time ]
           ELSE /\ rpc' = [ rpc EXCEPT ![w] = "invoke" ]
                /\ rtime' = [ rtime EXCEPT ![w] = 0 ]
    /\ UNCHANGED avars

\* time.sleep(wait_time) returns.
limiter_wakes(w) ==
    /\ rpc[w] = "sleep"
    /\ clock >= rtime[w]
    /\ rpc' = [ rpc EXCEPT ![w] = "invoke" ]
    /\ rtime' = [ rtime EXCEPT ![w] = 0 ]
    /\ UNCHANGED avars

\* The try block ends: with an exception, and the timestamp is left alone, or
\* at "last_bedrock_call_time = time.time()", whose call of time.time()
\* returns.
invoke_ends(w) ==
    /\ rpc[w] = "invoke"
    /\ \E raised \in BOOLEAN :
         IF raised
         THEN rpc' = [ rpc EXCEPT ![w] = "idle" ] /\ UNCHANGED rtime
         ELSE /\ rpc' = [ rpc EXCEPT ![w] = "store" ]
              /\ rtime' = [ rtime EXCEPT ![w] = clock ]
    /\ UNCHANGED avars

\* "last_bedrock_call_time = time.time()": the store to the global.
timestamp_stored(w) ==
    /\ rpc[w] = "store"
    /\ last_bedrock_call_time' = rtime[w]
    /\ rpc' = [ rpc EXCEPT ![w] = "idle" ]
    /\ rtime' = [ rtime EXCEPT ![w] = 0 ]
    /\ UNCHANGED << clock, debug_logs, LANGCHAIN_AVAILABLE, threaded, nreq, pc, req, loc,
                    resp, starts, completes >>

RNext ==
    \/ \E w \in Workers :
          limiter_reads(w) /\ UNCHANGED << vvars, xvars, dvars, lvars, pvars, hvars >>
    \/ \E w \in Workers :
          limiter_wakes(w) /\ UNCHANGED << vvars, xvars, dvars, lvars, pvars, hvars >>
    \/ \E w \in Workers :
          invoke_ends(w) /\ UNCHANGED << vvars, xvars, dvars, lvars, pvars, hvars >>
    \/ \E w \in Workers :
          timestamp_stored(w) /\ UNCHANGED << vvars, xvars, dvars, lvars, pvars, hvars >>
    \/ Tick /\ UNCHANGED << vvars, xvars, dvars, lvars, pvars, hvars, rvars >>

RInit ==
    Startup({ TRUE }, TRUE, { EmptyMessage }, { NoToken }, { "bedrock" }, { "llm-agent-aws" })

SpecRateLimiter == RInit /\ [][RNext]_vars

(***************************************************************************)
(* The resource validator.                                                 *)
(***************************************************************************)
\* The validator has decided: the view function is next, or the response is ready.
VDecided == vpc \in { "view", "done" }

\* The request passed validation: the view function is about to run or ran.
VAccepted == vpc = "view" \/ (vpc = "done" /\ vran = 1)

\* The bearer value of a header that has the scheme: what follows 'Bearer '.
VBearerValueDecodes == StartsWithBearer(vreq.hdr) /\ JwtDecodes(Tail(vreq.hdr))

\* C1: a request with no Authorization header, with a header that does not
\* start with 'Bearer ', or with a bearer value that cannot be decoded is
\* answered 401 and the wrapped view function never runs for it.
C1_UndecodableRejected ==
    (VDecided /\ ~VBearerValueDecodes) =>
        (vpc = "done" /\ vresp.status = 401 /\ vran = 0)

\* C2: a request whose header is 'Bearer ' followed by a decodable
\* three-segment value is passed to the view function, whatever its claims.
C2_DecodableAccepted ==
    (VDecided /\ VBearerValueDecodes) => VAccepted

\* C2 at work: a token with no appid, a foreign audience marker, an expiry in
\* the past and a federation marker other than the agent's got its view run.
C2_Witness ==
    /\ vpc = "done"
    /\ vran = 1
    /\ VBearerValueDecodes
    /\ vreq.claims.appid = Absent
    /\ vreq.claims.exp = "expired"
    /\ vreq.claims.xms_frd = "User"

(***************************************************************************)
(* The trace recorder and the rate limiter.                                *)
(***************************************************************************)
\* Worker w has answered a chat request with the result of process_*.
Answered(w) == pc[w] = "sent" /\ resp[w].status = 200

\* C3: the trace a request returns holds only records that request appended,
\* also when requests overlap.
C3_TraceOwnRecordsOnly ==
    \A w \in Workers :
        Answered(w) =>
            \A i \in 1..Len(resp[w].debug) : resp[w].debug[i].req = req[w].id

\* C4: any two entries of agent.invoke are at least the minimum spacing apart,
\* also when requests overlap.
C4_CallsSpacedUnderConcurrency ==
    \A i, j \in 1..Len(starts) :
        i < j => starts[j] - starts[i] >= BEDROCK_RATE_LIMIT_SECONDS

\* C5: with one request at a time, a call of the decision backend starts at
\* least the minimum spacing after the call before it ended, whatever that
\* call's outcome; a request that arrives earlier sleeps exactly up to the
\* timestamp plus the spacing, and a request that arrives later does not sleep.
C5_SequentialSpacing ==
    /\ \A k \in 2..Len(starts) :
           k - 1 <= Len(completes) =>
               starts[k] >= completes[k - 1].at + BEDROCK_RATE_LIMIT_SECONDS
    /\ \A w \in Workers :
           /\ pc[w] = "sleep" =>
                  /\ loc[w].arrive - last_bedrock_call_time < BEDROCK_RATE_LIMIT_SECONDS
                  /\ loc[w].wake = last_bedrock_call_time + BEDROCK_RATE_LIMIT_SECONDS
                  /\ loc[w].wait_time = loc[w].wake - loc[w].arrive
           /\ (pc[w] = "lc_invoke" /\ loc[w].wait_time = 0) =>
                  /\ loc[w].arrive - last_bedrock_call_time >= BEDROCK_RATE_LIMIT_SECONDS
                  /\ starts[Len(starts)] = loc[w].arrive

\* C6: the timestamp is not written while agent.invoke is running, and once a
\* request whose agent.invoke ended is answered the timestamp is no earlier
\* than that end, whether agent.invoke returned or raised.
C6_TimestampAfterEveryCall ==
    /\ Len(starts) > Len(completes) =>
           last_bedrock_call_time < starts[Len(starts)]
    /\ \A w \in Workers :
           (pc[w] = "sent" /\ loc[w].invoke # "") =>
               last_bedrock_call_time >= completes[Len(completes)].at

(***************************************************************************)
(* The tool chain.                                                         *)
(***************************************************************************)
\* get_weather_data has run to its end in worker w's current invocation.
ToolEnded(w) == loc[w].tools >= 1 /\ loc[w].tool_result # NONE

\* get_agent_token has returned no token in worker w's current invocation.
TokenFailed(w) == loc[w].fetches >= 1 /\ loc[w].token \in { NONE, "" }

\* C7: a tool invocation asks the broker once; when that fails the invocation
\* has ended with the authentication error, without a second fetch and
\* without a call of the resource server.
C7_OneFetchNoRetry ==
    \A w \in Workers :
        /\ loc[w].fetches <= 1
        /\ ToolEnded(w) => loc[w].fetches = 1
        /\ TokenFailed(w) =>
               /\ loc[w].tool_result = AUTH_ERROR
               /\ loc[w].apicalls = 0
               /\ pc[w] \notin { "tc_token", "tc_api" }

\* C7 at work: the broker failed, and the request was answered with the
\* authentication error after one fetch and no resource call.
C7_Witness ==
    \E w \in Workers :
        /\ pc[w] = "sent"
        /\ loc[w].broker = "network_error"
        /\ loc[w].fetches = 1
        /\ loc[w].apicalls = 0
        /\ resp[w].response = AUTH_ERROR

\* The step labels that tag a record as an error.
ErrorSteps == { "2. TOKEN ERROR", "3. WEATHER ERROR", "ERROR" }

\* The trace holds a record of request id with one of the step labels.
Recorded(tr, id, labels) ==
    \E i \in 1..Len(tr) : tr[i].req = id /\ tr[i].step \in labels

\* C8: on a network failure, a non-2xx status and a body without the
\* authorizationHeader field get_agent_token returns no token and has
\* appended a record of the failure.
C8_TokenFailureRecorded ==
    \A w \in Workers :
        loc[w].broker \in { "network_error", "http_error", "no_field" } =>
            /\ loc[w].token \in { NONE, "" }
            /\ Recorded(debug_logs, req[w].id, { "2. TOKEN ERROR" })

\* C9: a direct-mode request whose tool chain failed is answered normally with
\* the text of the failure, and its trace holds a record tagged as an error.
C9_FailureExplainedAndTagged ==
    \A w \in Workers :
        (pc[w] = "sent" /\ loc[w].mode = "direct"
           /\ (loc[w].broker \in { "network_error", "http_error", "no_field" }
                 \/ loc[w].resource \in { "http_error", "bad_json", "not_an_object" })) =>
            /\ resp[w].status = 200
            /\ resp[w].response \in { AUTH_ERROR, API_ERROR }
            /\ Recorded(resp[w].debug, req[w].id, ErrorSteps)

\* C10: when agent.invoke returned without a tool step and the query holds a
\* keyword, the tool chain was called once, directly, for the extracted city,
\* and the answer is what it returned.
C10_FallbackCallsToolOnce ==
    \A w \in Workers :
        (pc[w] = "sent" /\ loc[w].mode = "loop" /\ loc[w].invoke = "returned"
           /\ loc[w].rounds = 0 /\ HasKeyword(req[w].query)) =>
            /\ loc[w].tools = 1
            /\ loc[w].city # NoCity
            /\ resp[w].response = loc[w].tool_result

(***************************************************************************)
(* The dispatcher.                                                         *)
(***************************************************************************)
\* Worker w answered a loop-mode request whose agent.invoke returned after at
\* least one tool step.
LoopUsedTool(w) ==
    /\ pc[w] = "sent"
    /\ loc[w].mode = "loop"
    /\ loc[w].invoke = "returned"
    /\ loc[w].rounds >= 1

\* C11: when the loop invoked the tool, the answer is the loop's final message
\* and get_weather_data ran only as the loop's tool steps, never directly.
C11_LoopAnswerUnmodified ==
    \A w \in Workers :
        LoopUsedTool(w) =>
            /\ resp[w].status = 200
            /\ resp[w].response = LLM_ANSWER
            /\ loc[w].tools = loc[w].rounds
            /\ loc[w].cont = "loop"

\* C11 at work: the query holds a keyword, the loop invoked the tool, and the
\* loop's message is the answer.
C11_Witness ==
    \E w \in Workers :
        /\ LoopUsedTool(w)
        /\ HasKeyword(req[w].query)
        /\ FallbackCity(req[w].query) # NoCity
        /\ resp[w].response = LLM_ANSWER

\* C12: a direct-mode request runs get_weather_data once, with one token
\* fetch and at most one call of the resource server.
C12_DirectCallsToolOnce ==
    \A w \in Workers :
        loc[w].mode = "direct" =>
            /\ loc[w].tools = 1
            /\ loc[w].fetches <= 1
            /\ loc[w].apicalls <= 1
            /\ pc[w] = "sent" => loc[w].fetches = 1

\* C12 at work: a direct-mode request was answered after one fetch and one
\* resource call that failed.
C12_Witness ==
    \E w \in Workers :
        /\ pc[w] = "sent"
        /\ loc[w].mode = "direct"
        /\ loc[w].tools = 1
        /\ loc[w].fetches = 1
        /\ loc[w].apicalls = 1
        /\ resp[w].response = API_ERROR

(***************************************************************************)
(* The city extractors.                                                    *)
(***************************************************************************)
\* process_without_llm has extracted the city of the query.
Extracted == xpc # "start"

\* The places of the word kw in the query with at least one word after it.
PartsAfter(kw) ==
    { i \in 1..(Len(xq.words) - 1) : Lower(xq.words[i]) = kw }

\* The words of the query after place i, as they stand in the query.
WordsAfter(i) == City(SubSeq(xq.words, i + 1, Len(xq.words)), "")

\* C13: the city is what the "in" pattern gives; what the "for" pattern gives
\* when the "in" pattern gives nothing; the last token when both give nothing
\* and it is no stop word; the default city when all three give nothing.
C13_StrategiesInOrder ==
    Extracted =>
        LET c == Clean(xq)
            a == PatternCity(c, "in")
            b == PatternCity(c, "for")
            t == LastToken(c)
        IN  /\ a # NoCity => xcity = a
            /\ (a = NoCity /\ b # NoCity) => xcity = b
            /\ (a = NoCity /\ b = NoCity /\ t # NoCity) => xcity = t
            /\ (a = NoCity /\ b = NoCity /\ t = NoCity) => xcity = Seattle

\* C13 at work: the "in" pattern and the "for" pattern give different cities
\* and the city is the one of the "in" pattern.
C13_Witness ==
    /\ Extracted
    /\ PatternCity(Clean(xq), "in") # NoCity
    /\ PatternCity(Clean(xq), "for") # NoCity
    /\ PatternCity(Clean(xq), "in") # PatternCity(Clean(xq), "for")
    /\ xcity = PatternCity(Clean(xq), "in")

\* C14: the extractor yields a city that is not the empty string, for every
\* query.
C14_ExtractorTotal ==
    Extracted => (xcity.words # <<>> \/ xcity.mark # "")

\* C14 at work: a query of stop words only, and one of punctuation only,
\* yield the default city.
C14_Witness ==
    /\ Extracted
    /\ \/ xq.words = <<>> /\ xq.tail = " ?"
       \/ /\ xq.words # <<>>
          /\ \A i \in 1..Len(xq.words) : Lower(xq.words[i]) \in common_words
    /\ xcity = Seattle

\* C15: extracting from the extracted city gives the extracted city again.
C15_ExtractorIdempotent ==
    xpc = "again" => xagain = xcity

\* C16: a query that holds "in" before its last words yields the words after
\* an "in", as they stand in the query; one that does not, and holds "for"
\* before its last words, yields the words after a "for".
C16_InAndForPatterns ==
    Extracted =>
        /\ PartsAfter("in") # {} => \E i \in PartsAfter("in") : xcity = WordsAfter(i)
        /\ (PartsAfter("in") = {} /\ PartsAfter("for") # {}) =>
               \E i \in PartsAfter("for") : xcity = WordsAfter(i)

\* The last whitespace-delimited token of the cleaned query.
FinalToken ==
    City(IF xq.words = <<>> THEN <<>> ELSE <<xq.words[Len(xq.words)]>>,
         IF Clean(xq).rest = "?" THEN "?" ELSE "")

C18_SameExtractor ==
    (xpc \in { "both", "again" } /\ HasKeyword(xq)) => xfallback = xcity

(***************************************************************************)
(* The claims decoder.                                                     *)
(***************************************************************************)
\* C19: a token that has not three segments, or whose second segment is not
\* base64url, gets None from decode_jwt_payload.
C19_DecoderRejects ==
    (dpc # "start" /\ (dtoken.nsegs # 3 \/ dtoken.payload \in NotBase64Url)) =>
        dclaims = NoPayload

\* The keys the display is expected to hold whatever the payload.
ExpectedKeys ==
    { "aud", "iss", "appid", "oid", "tid", "roles", "iat", "exp", "xms_frd" }

\* C20: for a token of three segments with a base64url JSON object as its
\* payload, the claims displayed hold every claim of the payload with its
\* value, and every expected key the payload lacks with "N/A".
C20_DisplayComplete ==
    (dpc \in { "displayed", "called" } /\ dtoken.string /\ dtoken.nsegs = 3
       /\ dtoken.payload = "object") =>
        /\ \A k \in dtoken.keys :
               k \in DOMAIN ddisplay.jwt_claims /\ ddisplay.jwt_claims[k] = "value"
        /\ \A k \in ExpectedKeys \ dtoken.keys :
               k \in DOMAIN ddisplay.jwt_claims /\ ddisplay.jwt_claims[k] = "N/A"

\* C21: for a token from the broker (a string that is not empty),
\* get_agent_token returns the token as it came, whether its claims decode
\* or not.
C21_TokenReturnedUnchanged ==
    (dpc \in { "displayed", "called" } /\ dtoken.string /\ dtoken # NoToken) =>
        ddisplay.returns = Returned(dtoken)

\* C22: the Authorization header of every request call_weather_api sends is
\* the token the broker gave, with no 'Bearer ' put before it or taken off.
C22_HeaderIsBrokerToken ==
    dheader.sent => dheader.Authorization = dtoken

\* A request went out with a three-segment token that has no 'Bearer ' prefix.
C22_Witness ==
    /\ dpc = "called"
    /\ dheader.sent
    /\ dheader.Authorization.nsegs = 3
    /\ ~dtoken.bearer

(***************************************************************************)
(* Failures of the tool chain and of the decision loop.                    *)
(***************************************************************************)
\* The answers of the resource server that are no 2xx, or whose body is not
\* JSON or not a JSON object.
ResourceFailures == { "http_error", "bad_json", "not_an_object" }

\* C23: when the resource server answered non-2xx or with a malformed body,
\* the trace holds call_weather_api's record of the failure and
\* get_weather_data returned the text that the data could not be got.
C23_ResourceFailureHandled ==
    \A w \in Workers :
        (loc[w].apicalls >= 1 /\ loc[w].resource \in ResourceFailures) =>
            /\ Recorded(debug_logs, req[w].id, { "3. WEATHER ERROR" })
            /\ loc[w].tool_result = API_ERROR

\* C24: every chat request that was answered got a result from the handler:
\* the 400 for an empty message or the JSON result of process_*, never the
\* 500 of an exception that left chat.
C24_HandlerNeverCrashes ==
    \A w \in Workers :
        pc[w] = "sent" => resp[w].status \in { 200, 400 }

\* C25: when agent.invoke raised, the request is answered with the result of
\* process_with_langchain: the error text, success false, and a trace that
\* ends with the error record of this request.
C25_LoopFailureCaught ==
    \A w \in Workers :
        (pc[w] = "sent" /\ loc[w].invoke = "raised") =>
            /\ resp[w].status = 200
            /\ resp[w].response = AGENT_ERROR
            /\ resp[w].success = FALSE
            /\ Len(resp[w].debug) >= 1
            /\ resp[w].debug[Len(resp[w].debug)] = [ req |-> req[w].id, step |-> "ERROR" ]

\* C25 at work: agent.invoke raised after a tool step, and the request was
\* answered with the error text.
C25_Witness ==
    \E w \in Workers :
        /\ pc[w] = "sent"
        /\ loc[w].invoke = "raised"
        /\ loc[w].rounds >= 1
        /\ resp[w].response = AGENT_ERROR

C27_LoopBoundedByTen ==
    /\ lsteps <= recursion_limit
    /\ ltools <= recursion_limit \div 2

(***************************************************************************)
(* The trace within a request.                                             *)
(***************************************************************************)
\* The sequence s is the beginning of the sequence t.
IsPrefix(s, t) == Len(s) <= Len(t) /\ SubSeq(t, 1, Len(s)) = s

\* C28: with one request at a time, the trace a request returns holds no
\* record of an earlier request, and between the arrival of a request and
\* the arrival of the next the trace only grows at its end.
C28_TraceAppendOnly ==
    /\ [](\A w \in Workers :
             Answered(w) =>
                 \A i \in 1..Len(resp[w].debug) : resp[w].debug[i].req = req[w].id)
    /\ [][nreq' = nreq => IsPrefix(debug_logs, debug_logs')]_vars

(***************************************************************************)
(* The claims of a validated request.                                      *)
(***************************************************************************)
\* The request of thread t passed validation.
Validated(t) == ppc[t] = "view" \/ (ppc[t] = "done" /\ presp[t].status # 401)

\* C29: for a request that passed validation, is_agent_identity is true
\* exactly when the token's xms_frd is "FederatedAgent", and the agent_app_id
\* of the response is the appid of the token of that request, "unknown" when
\* the token has none, also when requests with other tokens overlap.
C29_ClaimsOfOwnToken ==
    \A t \in Handlers :
        Validated(t) =>
            /\ pctx[t].is_agent_identity = (preq[t].claims.xms_frd = "FederatedAgent")
            /\ ppc[t] = "done" =>
                   /\ presp[t].agent_app_id = Get(preq[t].claims, "appid", "unknown")
                   /\ presp[t].status = 200 =>
                          presp[t].is_agent_identity =
                              IF preq[t].claims.xms_frd = "FederatedAgent"
                              THEN "true" ELSE "false"

\* C29 at work: a request with the token of one application was answered
\* while a request with an agent's token of another application, validated
\* after it, was still being served.
C29_Witness ==
    \E t, u \in Handlers :
        /\ ppc[t] = "done"
        /\ presp[t].status = 200
        /\ presp[t].agent_app_id = "app-1"
        /\ presp[t].is_agent_identity = "false"
        /\ ppc[u] = "view"
        /\ pctx[u].appid = "app-2"
        /\ pctx[u].is_agent_identity

(***************************************************************************)
(* End to end.                                                             *)
(***************************************************************************)
TokyoQuery == Query(<<"weather", "in", "Tokyo">>, "")
Tokyo == City(<<"Tokyo">>, "")

\* C30: a direct-mode request for "weather in Tokyo" asks weather-api for
\* the city "Tokyo", and when the broker gave a token and weather-api and
\* its data provider succeeded, the weather record it gets has the city
\* "Tokyo" and validated_by "Agent Identity Token".
C30_TokyoEndToEnd ==
    \A w \in Workers :
        (loc[w].mode = "direct" /\ req[w].query = TokyoQuery) =>
            /\ loc[w].city = Tokyo
            /\ pc[w] = "tc_api" =>
                   \A t \in Handlers : ppc[t] # "idle" => preq[t].city = Tokyo
            /\ (pc[w] = "sent" /\ loc[w].broker = "token" /\ loc[w].resource = "weather") =>
                   /\ loc[w].weather.status = 200
                   /\ loc[w].weather.city = Tokyo
                   /\ loc[w].weather.validated_by = "Agent Identity Token"
                   /\ resp[w].status = 200
                   /\ resp[w].response = WEATHER

\* C30 at work: the request for "weather in Tokyo" was answered with the
\* weather record of weather-api.
C30_Witness ==
    \E w \in Workers :
        /\ pc[w] = "sent"
        /\ loc[w].mode = "direct"
        /\ req[w].query = TokyoQuery
        /\ loc[w].broker = "token"
        /\ loc[w].resource = "weather"
        /\ loc[w].weather.city = Tokyo
        /\ resp[w].response = WEATHER

TokenSteps ==
    { "2.A TOKEN REQUEST", "2.B REQUEST URL", "2. TOKEN ERROR", "2.C TOKEN RECEIVED" }
ResourceSteps ==
    { "3.A API CALL", "3.B API URL", "3. WEATHER ERROR", "3.C API RESPONSE" }

\* The indices of the records of the invocation of get_weather_data that began
\* last in the trace tr.
LastInvocation(tr) ==
    LET calls == { i \in 1..Len(tr) : tr[i].step = "1. TOOL CALLED" }
    IN  IF calls = {} THEN {}
        ELSE { i \in 1..Len(tr) : \A c \in calls : c <= i }

\* C32: within one invocation of the tool the token fetch comes first, then
\* the resource call, then the formatting: the request to the resource server
\* is sent only after get_agent_token returned a non-empty token in the same
\* invocation, and the record "4. TOOL RESULT" is written only after a token
\* was fetched and the resource server's record was received, with the token
\* records before the resource records before "4. TOOL RESULT".  (The trace
\* still holds the records of the request before while a request is turned
\* away with 400 or waits for the rate limiter: the locals are compared with
\* the records of the worker's own request.)
C32_TokenThenResourceThenResult ==
    \A w \in Workers :
        LET inv == LastInvocation(debug_logs)
            tok == { i \in inv : debug_logs[i].step \in TokenSteps }
            res == { i \in inv : debug_logs[i].step \in ResourceSteps }
            fin == { i \in inv : debug_logs[i].step = "4. TOOL RESULT" }
        IN  /\ (pc[w] = "tc_api" \/ loc[w].apicalls > 0) =>
                   /\ loc[w].fetches = 1
                   /\ loc[w].token \notin { NONE, "" }
                   /\ loc[w].broker \in { "opaque_token", "token" }
            /\ pc[w] = "tc_token" => loc[w].apicalls = 0
            /\ (w = 1 /\ ~threaded) =>
                   /\ \A i \in tok, j \in res : i < j
                   /\ \A j \in tok \cup res, k \in fin : j < k
                   /\ res # {} => tok # {}
                   /\ (fin # {} /\ \A k \in fin : debug_logs[k].req = req[w].id) =>
                          /\ loc[w].token \notin { NONE, "" }
                          /\ loc[w].apicalls = 1
                          /\ loc[w].resource = "weather"
                          /\ \E j \in res : debug_logs[j].step = "3.C API RESPONSE"

\* C32 at work: an invocation ran to its formatted result.
C32_Witness ==
    /\ ~threaded
    /\ pc[1] = "sent"
    /\ loc[1].tool_result = WEATHER
    /\ \E i \in LastInvocation(debug_logs) : debug_logs[i].step = "4. TOOL RESULT"

(***************************************************************************)
(* The agent: the rate limiter's record.                                   *)
(***************************************************************************)
\* C33: when the rate limiter made a decision-loop request wait, the record
\* "0. RATE LIMIT" the request logged is in the trace it returns.
C33_RateLimitStepReturned ==
    \A w \in Workers :
        (Answered(w) /\ loc[w].wait_time > 0) =>
            Recorded(resp[w].debug, req[w].id, { "0. RATE LIMIT" })

(***************************************************************************)
(* weather-api: the forecast.                                              *)
(***************************************************************************)
\* C34: a GET /weather/forecast request with a valid decodable bearer token
\* is answered 200 with the forecast, and never with the 500 of an unhandled
\* exception.
C34_ForecastAnswered ==
    (vpc = "done" /\ vreq.route = "forecast" /\ VBearerValueDecodes) =>
        (vresp.status = 200 /\ vresp.error = "")

(***************************************************************************)
(* The agent: one mode per request.                                        *)
(***************************************************************************)
LoopSteps ==
    { "0. RATE LIMIT", "0. BEDROCK", "0. AGENT READY", "1. NO TOOL", "1. FALLBACK",
      "2. CITY DETECTED", "2. NO CITY", "ERROR" }

\* The request worker w serves passed the test for a message.
Dispatched(w) == req[w].id # 0 /\ resp[w].status # 400

\* C35: a chat request runs the decision loop exactly when its flag is set,
\* the library was loaded and check_bedrock_available answered yes, and the
\* direct path in every other case; it never runs both: a request in direct
\* mode writes no record of the loop, a request in loop mode no
\* "1. DIRECT CALL", and the tool reports to the path that called it.
C35_OneModePerRequest ==
    \A w \in Workers :
        Dispatched(w) =>
            /\ loc[w].mode \in { "loop", "direct" }
            /\ loc[w].mode = "loop" <=>
                   /\ req[w].use_langchain
                   /\ LANGCHAIN_AVAILABLE
                   /\ req[w].available = "available"
            /\ loc[w].mode = "direct" =>
                   /\ ~Recorded(debug_logs, req[w].id, LoopSteps)
                   /\ loc[w].cont = "direct"
                   /\ loc[w].invoke = "" /\ loc[w].rounds = 0
            /\ loc[w].mode = "loop" =>
                   /\ ~Recorded(debug_logs, req[w].id, { "1. DIRECT CALL" })
                   /\ loc[w].cont \in { "", "loop", "fallback" }

\* C35 at work: the flag was set and the library loaded, the backend was not
\* available, and the request was answered by the direct path.
C35_Witness ==
    \E w \in Workers :
        /\ Answered(w)
        /\ req[w].use_langchain /\ LANGCHAIN_AVAILABLE
        /\ req[w].available = "unavailable"
        /\ loc[w].mode = "direct"
        /\ Recorded(resp[w].debug, req[w].id, { "1. DIRECT CALL" })

(***************************************************************************)
(* The agent: the direct path and the rate limiter.                        *)
(***************************************************************************)
\* C36: a request in direct mode leaves last_bedrock_call_time as it is and
\* is never made to wait by the rate limiter: no step of a request in direct
\* mode changes the timestamp, such a request is never in time.sleep, and as
\* long as no decision loop has run to its end the timestamp is the 0 of the
\* start.
C36_DirectLeavesRateLimiter ==
    /\ [](\A w \in Workers :
              loc[w].mode = "direct" =>
                  /\ pc[w] # "sleep"
                  /\ loc[w].wait_time = 0 /\ loc[w].wake = 0)
    /\ [](completes = <<>> => last_bedrock_call_time = 0)
    /\ [][\A w \in Workers :
              (loc'[w].mode = "direct" /\ << pc[w], loc[w], resp[w] >> # << pc'[w], loc'[w], resp'[w] >>)
                  => last_bedrock_call_time' = last_bedrock_call_time]_vars

\* C36 at work: a request in direct mode was answered less than
\* BEDROCK_RATE_LIMIT_SECONDS after a decision loop set the timestamp.
C36_Witness ==
    \E w \in Workers :
        /\ Answered(w)
        /\ loc[w].mode = "direct"
        /\ last_bedrock_call_time # 0
        /\ clock - last_bedrock_call_time < BEDROCK_RATE_LIMIT_SECONDS

(***************************************************************************)
(* The agent: a request without a message.                                 *)
(***************************************************************************)
\* C37: a chat request whose message is empty or absent is answered 400
\* before anything else happens: the trace, the rate limiter's timestamp and
\* the rest of the shared state are as they were, and the request sends
\* nothing to the broker, the resource server or the decision backend.
C37_EmptyMessageRejected ==
    /\ [](\A w \in Workers :
              (req[w].id # 0 /\ IsEmptyMessage(req[w].query)) =>
                  /\ pc[w] = "sent"
                  /\ resp[w].status = 400
                  /\ resp[w].response = "No message provided"
                  /\ loc[w] = NoLocals)
    /\ [][\A w \in Workers :
              (req'[w] # req[w] /\ IsEmptyMessage(req'[w].query)) =>
                  /\ debug_logs' = debug_logs
                  /\ last_bedrock_call_time' = last_bedrock_call_time
                  /\ LANGCHAIN_AVAILABLE' = LANGCHAIN_AVAILABLE
                  /\ starts' = starts /\ completes' = completes
                  /\ \A v \in Workers \ { w } :
                         << pc'[v], loc'[v], resp'[v] >> = << pc[v], loc[v], resp[v] >>]_vars

\* C37 at work: a request without a message was turned away after a decision
\* loop had run, and the trace and the timestamp of that run are still there.
C37_Witness ==
    \E w \in Workers :
        /\ req[w].id = 2
        /\ IsEmptyMessage(req[w].query)
        /\ resp[w].status = 400
        /\ debug_logs # <<>>
        /\ last_bedrock_call_time # 0

(***************************************************************************)
(* The agent: the success flag.                                            *)
(***************************************************************************)
\* C38: the result of a request in direct mode carries success true, also
\* when the token fetch or the resource call failed and the text is the
\* error message; the result of a request in loop mode carries success false
\* exactly when the except clause of process_with_langchain ran, which is
\* when it wrote the record "ERROR".
C38_SuccessFlag ==
    \A w \in Workers :
        Answered(w) =>
            /\ loc[w].mode = "direct" => resp[w].success
            /\ loc[w].mode = "loop" =>
                   /\ ~resp[w].success <=>
                          Recorded(resp[w].debug, req[w].id, { "ERROR" })
                   /\ ~resp[w].success <=> resp[w].response = AGENT_ERROR
                   /\ loc[w].invoke = "raised" => ~resp[w].success
                   /\ (loc[w].cont = "fallback" /\ loc[w].tool_result = "raised") =>
                          ~resp[w].success
                   /\ (loc[w].invoke = "returned" /\ loc[w].tool_result # "raised") =>
                          resp[w].success
                   /\ (loc[w].invoke = "returned" /\ loc[w].cont # "fallback") =>
                          resp[w].success

\* C38 at work: the broker gave no token to a request in direct mode; the
\* text is the authentication error and success is true.
C38_Witness ==
    \E w \in Workers :
        /\ Answered(w)
        /\ loc[w].mode = "direct"
        /\ TokenFailed(w)
        /\ resp[w].response = AUTH_ERROR
        /\ resp[w].success

(***************************************************************************)
(* The health endpoints.                                                   *)
(***************************************************************************)
\* C39: GET /health of the agent and of weather-api is answered 200 with
\* status "healthy", with or without an Authorization header, whatever else
\* the process is doing, and serving it changes neither the trace nor the
\* rate limiter's timestamp nor any request in flight, and fetches no token.
C39_HealthAlwaysHealthy ==
    /\ [](hresp # NoHealth =>
              /\ hresp.code = 200
              /\ hresp.status = "healthy"
              /\ hresp.service = ServiceName(hservice))
    /\ [][hresp' # hresp =>
              /\ debug_logs' = debug_logs
              /\ last_bedrock_call_time' = last_bedrock_call_time
              /\ nreq' = nreq /\ pc' = pc /\ req' = req /\ loc' = loc /\ resp' = resp
              /\ ppc' = ppc /\ preq' = preq /\ pctx' = pctx /\ presp' = presp]_vars

\* C39 at work: the agent answered /health without an Authorization header
\* while a chat request was waiting for the broker's token, with the
\* request's records in the trace.
C39_Witness ==
    /\ hservice = "llm-agent-aws"
    /\ hresp.code = 200
    /\ hresp.auth_header = <<>>
    /\ pc[1] = "tc_token"
    /\ debug_logs # <<>>

(***************************************************************************)
(* The rate limiter's timestamp.                                           *)
(***************************************************************************)
\* C40: last_bedrock_call_time is 0 at the start and never decreases, also
\* with requests on threads; no request waits in the rate limiter while the
\* timestamp is still 0.
C40_TimestampNeverDecreases ==
    /\ [](last_bedrock_call_time = 0 => \A w \in Workers : rpc[w] # "sleep")
    /\ [][last_bedrock_call_time' >= last_bedrock_call_time]_vars

====
